---- MODULE Spec2Model ----
(***************************************************************************)
(* Verification model of scvi/dataset/_utils.py (count validation, library *)
(* size statistics, batch measurement masks) and scvi/autotune/_autotune.py*)
(* (tune callbacks and hyperparameter routing).                            *)
(*                                                                         *)
(* Each function under study has its own specification: Init draws the     *)
(* inputs from bounded sets and the actions apply the function as the      *)
(* source computes it.  Variables a specification does not use are pinned  *)
(* to Unused.                                                              *)
(***************************************************************************)
EXTENDS Integers, Sequences, FiniteSets, TLC

VARIABLES pc,
          X, ret_check,
          heap, args, outcome,
          data, lib,
          dataset, batch_mask,
          trainer, callbacks, events, reports, checkpoints,
          hyper, config, trial_cfg, best_cfg

vars == <<pc, X, ret_check, heap, args, outcome, data, lib, dataset, batch_mask,
          trainer, callbacks, events, reports, checkpoints,
          hyper, config, trial_cfg, best_cfg>>

Unused == "unused"
None == "None"

checkVars == <<X, ret_check>>
batchVars == <<heap, args, outcome>>
libVars == <<data, lib>>
maskVars == <<dataset, batch_mask>>
tuneVars == <<trainer, callbacks, events, reports, checkpoints>>
routeVars == <<hyper, config, trial_cfg, best_cfg>>

CheckUnused == X = Unused /\ ret_check = Unused
BatchUnused == heap = Unused /\ args = Unused /\ outcome = Unused
LibUnused == data = Unused /\ lib = Unused
MaskUnused == dataset = Unused /\ batch_mask = Unused
TuneUnused ==
    /\ trainer = Unused /\ callbacks = Unused /\ events = Unused
    /\ reports = Unused /\ checkpoints = Unused
RouteUnused ==
    /\ hyper = Unused /\ config = Unused /\ trial_cfg = Unused /\ best_cfg = Unused

(***************************************************************************)
(* Generic helpers.                                                        *)
(***************************************************************************)
RECURSIVE SeqSum(_)
SeqSum(s) == IF s = <<>> THEN 0 ELSE Head(s) + SeqSum(Tail(s))

RECURSIVE SortedSeq(_)
\* the elements of a finite set of integers in ascending order
SortedSeq(S) ==
    IF S = {} THEN <<>>
    ELSE LET m == CHOOSE x \in S : \A y \in S : x <= y
         IN <<m>> \o SortedSeq(S \ {m})

Range(s) == {s[i] : i \in DOMAIN s}

(***************************************************************************)
(* _check_nonnegative_integers                                             *)
(*                                                                         *)
(* Matrix entries are rationals with denominator Unit, stored as their     *)
(* numerators: v stands for v / Unit, so 5 is 2.5 and -2 is -1 when        *)
(* Unit = 2.                                                               *)
(***************************************************************************)
Unit == 2

\* a matrix of the model has at most MaxCells entries
MaxCells == 4

Shapes == {s \in (0..MaxCells) \X (0..MaxCells) : s[1] * s[2] <= MaxCells}

\* -1, 0, 1/2, 1 and 5/2 in halves
EntryValues == {-Unit, 0, 1, Unit, 2 * Unit + 1}

Positions(n, m) == (1..n) \X (1..m)

\* the positions of S in row-major order
RowMajor(S, n, m) ==
    LET all == [k \in 1..(n * m) |-> <<((k - 1) \div m) + 1, ((k - 1) % m) + 1>>]
        Stored(p) == p \in S
    IN  SelectSeq(all, Stored)

\* numpy.ndarray of shape (n, m)
DenseMatrices(n, m) ==
    {[kind |-> "ndarray", shape |-> <<n, m>>, A |-> a] :
        a \in [1..n -> [1..m -> EntryValues]]}

\* scipy csr_matrix in canonical form: the stored positions are distinct and
\* row-major; data holds one value per stored position and may hold explicit
\* zeros
SparseMatrices(n, m) ==
    UNION {{[kind |-> "csr", shape |-> <<n, m>>, nz |-> RowMajor(S, n, m), data |-> d] :
               d \in [1..Cardinality(S) -> EntryValues]} :
           S \in SUBSET Positions(n, m)}

CheckInputs ==
    UNION {DenseMatrices(s[1], s[2]) \cup SparseMatrices(s[1], s[2]) : s \in Shapes}

\* ndarray.ravel(): the entries in row-major order
Ravel(A, n, m) == [k \in 1..(n * m) |-> A[((k - 1) \div m) + 1][((k - 1) % m) + 1]]

\* data = X if type(X) is np.ndarray else X.data
CheckData(M) ==
    IF M.kind = "ndarray" THEN Ravel(M.A, M.shape[1], M.shape[2]) ELSE M.data

\* np.mod(data, 1): the result has the sign of the divisor
Mod1(v) == v % Unit

\* a variant that tests integrality only
_check_nonnegative_integers_nosign(M) ==
    LET d == CheckData(M)
    IN  IF \E k \in DOMAIN d : ~(Mod1(d[k]) = 0) THEN FALSE
        ELSE TRUE

_check_nonnegative_integers(M) ==
    LET d == CheckData(M)
    IN  IF \E k \in DOMAIN d : d[k] < 0 THEN FALSE
        ELSE IF \E k \in DOMAIN d : ~(Mod1(d[k]) = 0) THEN FALSE
        ELSE TRUE

InitCheck ==
    /\ pc = "start"
    /\ X \in CheckInputs
    /\ ret_check = None
    /\ BatchUnused /\ LibUnused /\ MaskUnused /\ TuneUnused /\ RouteUnused

CheckNonnegativeIntegers ==
    /\ pc = "start"
    /\ ret_check' = _check_nonnegative_integers(X)
    /\ pc' = "done"
    /\ UNCHANGED <<X, batchVars, libVars, maskVars, tuneVars, routeVars>>

NextCheck == CheckNonnegativeIntegers

SpecCheck == InitCheck /\ [][NextCheck]_vars

\* the entry of M at row r, column c (an unstored entry of a csr matrix is 0)
EntryAt(M, r, c) ==
    IF M.kind = "ndarray" THEN M.A[r][c]
    ELSE IF \E k \in DOMAIN M.nz : M.nz[k] = <<r, c>>
         THEN M.data[CHOOSE k \in DOMAIN M.nz : M.nz[k] = <<r, c>>]
         ELSE 0

AllCounts(M) ==
    \A r \in 1..M.shape[1], c \in 1..M.shape[2] :
        /\ EntryAt(M, r, c) >= 0
        /\ \E q \in 0..EntryAt(M, r, c) : q * Unit = EntryAt(M, r, c)

\* C1: _check_nonnegative_integers(X) is true exactly when every entry of X
\* is non-negative and has fractional part zero; it is false when X holds
\* -1, false when X holds 2.5, true for an all-zero and for an empty matrix.
C1_Theorem ==
    pc = "done" =>
        /\ ret_check = AllCounts(X)
        /\ (\E r \in 1..X.shape[1], c \in 1..X.shape[2] :
                EntryAt(X, r, c) \in {-Unit, 2 * Unit + 1}) => ret_check = FALSE
        /\ (\A r \in 1..X.shape[1], c \in 1..X.shape[2] : EntryAt(X, r, c) = 0)
                => ret_check = TRUE

\* reached: a sparse matrix with a stored -1 is rejected, and an empty matrix
\* is accepted
C1_Witness ==
    /\ pc = "done"
    /\ X.kind = "csr"
    /\ X.shape[1] > 0
    /\ \E k \in DOMAIN X.data : X.data[k] = -Unit
    /\ \A k \in DOMAIN X.data : X.data[k] % Unit = 0
    /\ ret_check = FALSE

(***************************************************************************)
(* _compute_library_size                                                   *)
(*                                                                         *)
(* Floating-point values are carried on a fixed-point grid: a log value or *)
(* a mean is an integer number of thousandths, a variance an integer       *)
(* number of millionths.  A float record is [nan, v]; nan marks the result *)
(* of a reduction over no rows.                                            *)
(***************************************************************************)
CountValues == {0, 1, 2}

\* matrices of counts as sequences of rows
CountMatrices == UNION {[1..s[1] -> [1..s[2] -> CountValues]] : s \in Shapes}

\* 1000 * ln(t) for t = 1..12, to the nearest integer
LogTable == <<0, 693, 1099, 1386, 1609, 1792, 1946, 2079, 2197, 2303, 2398, 2485>>

\* data.sum(axis=1)
SumAxis1(d) == [r \in DOMAIN d |-> SeqSum(d[r])]

\* np.ma.log: the log of each entry, masked where the entry is not positive
MaLog(sum_counts) ==
    [r \in DOMAIN sum_counts |->
        IF sum_counts[r] <= 0 THEN [mask |-> TRUE, v |-> 0]
        ELSE [mask |-> FALSE, v |-> LogTable[sum_counts[r]]]]

\* np.ma.is_masked
IsMasked(ma) == \E r \in DOMAIN ma : ma[r].mask

\* MaskedArray.filled(fill_value)
Filled(ma, fill_value) ==
    [r \in DOMAIN ma |-> IF ma[r].mask THEN fill_value ELSE ma[r].v]

\* p / q rounded to the nearest grid point, ties to even (p >= 0, q > 0)
RoundDiv(p, q) ==
    LET f == p \div q
        r == p % q
    IN  IF 2 * r < q THEN f
        ELSE IF 2 * r > q THEN f + 1
        ELSE IF f % 2 = 0 THEN f ELSE f + 1

NaN == [nan |-> TRUE, v |-> 0]
Float(v) == [nan |-> FALSE, v |-> v]

\* np.mean(a).astype(np.float32)
MeanF32(a) ==
    IF Len(a) = 0 THEN NaN ELSE Float(RoundDiv(SeqSum(a), Len(a)))

\* np.var(a).astype(np.float32): the mean of the squared deviations from the
\* mean, (n * sum(a^2) - sum(a)^2) / n^2
VarF32(a) ==
    IF Len(a) = 0 THEN NaN
    ELSE LET n == Len(a)
             S == SeqSum(a)
             Q == SeqSum([r \in DOMAIN a |-> a[r] * a[r]])
         IN  Float(RoundDiv(n * Q - S * S, n * n))

_compute_library_size(d) ==
    LET sum_counts == SumAxis1(d)
        masked_log_sum == MaLog(sum_counts)
        log_counts == Filled(masked_log_sum, 0)
    IN  [local_mean |-> MeanF32(log_counts),
         local_var |-> VarF32(log_counts),
         warned |-> IsMasked(masked_log_sum)]

InitLib ==
    /\ pc = "start"
    /\ data \in CountMatrices
    /\ lib = None
    /\ CheckUnused /\ BatchUnused /\ MaskUnused /\ TuneUnused /\ RouteUnused

ComputeLibrarySize ==
    /\ pc = "start"
    /\ lib' = _compute_library_size(data)
    /\ pc' = "done"
    /\ UNCHANGED <<data, checkVars, batchVars, maskVars, tuneVars, routeVars>>

NextLib == ComputeLibrarySize

SpecLib == InitLib /\ [][NextLib]_vars

\* the logs of the positive row totals of d, in row order
PositiveLogs(d) ==
    LET tot == SumAxis1(d)
        Pos(t) == t > 0
        kept == SelectSeq(tot, Pos)
    IN  [r \in DOMAIN kept |-> LogTable[kept[r]]]

\* C2: a row whose total is zero is excluded from the mean and the variance:
\* local_mean and local_var are the mean and variance of log(total) over the
\* rows with total > 0 only.
C2_Claim ==
    (pc = "done" /\ PositiveLogs(data) # <<>>) =>
        /\ lib.local_mean = MeanF32(PositiveLogs(data))
        /\ lib.local_var = VarF32(PositiveLogs(data))

(***************************************************************************)
(* _compute_library_size_batch                                             *)
(*                                                                         *)
(* heap maps object identities to annotated datasets.  A dataset is        *)
(* [X, obs, layers]: the count matrix, the row annotations (column name to *)
(* column) and the named alternate matrices.  The input dataset is object  *)
(* InputId.                                                                *)
(***************************************************************************)
BatchLabels == {0, 1}
InputId == 1
DefaultMeanKey == "_scvi_local_l_mean"
DefaultVarKey == "_scvi_local_l_var"

\* the alternate matrix registered with a dataset: the rows of A in reverse
\* order (same shape, other per-batch totals)
ReverseRows(A) == [r \in DOMAIN A |-> A[Len(A) + 1 - r]]

\* the counts a dataset's primary matrix holds
DatasetCounts == {0, 2}

Datasets ==
    UNION {{[X |-> A, obs |-> ("batch" :> b), layers |-> ("counts" :> ReverseRows(A))] :
               b \in [1..Len(A) -> BatchLabels]} :
           A \in UNION {[1..s[1] -> [1..s[2] -> DatasetCounts]] : s \in Shapes}}

BatchArgs ==
    [batch_key : {"batch", "sample"},
     local_l_mean_key : {None, "l_mean"},
     local_l_var_key : {None, "l_var"},
     X_layers_key : {None, "counts", "raw"},
     copy : BOOLEAN]

\* np.unique: the distinct values in ascending order
Unique(col) == SortedSeq(Range(col))

\* batch_indices == i_batch
EqMask(batch_indices, i_batch) ==
    [r \in DOMAIN batch_indices |-> batch_indices[r] = i_batch]

\* adata[idx_batch]: the rows where the mask is set, in row order
SelectRows(A, idx) ==
    LET rows == [r \in DOMAIN A |-> <<idx[r], A[r]>>]
        Kept(e) == e[1]
        kept == SelectSeq(rows, Kept)
    IN  [r \in DOMAIN kept |-> kept[r][2]]

\* arr[idx_batch] = value; writes counts the assignments each row received
AssignWhere(arr, idx, value) ==
    [r \in DOMAIN arr |-> IF idx[r] THEN value ELSE arr[r]]

CountWhere(writes, idx) ==
    [r \in DOMAIN writes |-> IF idx[r] THEN writes[r] + 1 ELSE writes[r]]

\* a variant that takes every row up to the batch label
idx_batch_upto(batch_indices, i_batch) ==
    [r \in DOMAIN batch_indices |-> batch_indices[r] <= i_batch]

\* idx_batch = np.squeeze(batch_indices == i_batch)
idx_batch_of(batch_indices, i_batch) == EqMask(batch_indices, i_batch)

RECURSIVE BatchLoop(_, _, _, _)
\* the loop over np.unique(batch_indices); todo holds the labels still to visit
BatchLoop(adata, a, todo, acc) ==
    IF todo = <<>> THEN acc
    ELSE LET batch_indices == adata.obs[a.batch_key]
             i_batch == Head(todo)
             idx_batch == idx_batch_of(batch_indices, i_batch)
         IN  IF a.X_layers_key # None /\ a.X_layers_key \notin DOMAIN adata.layers
             THEN [acc EXCEPT !.raised = "X_layers_key not a valid key for adata.layers"]
             ELSE LET src == IF a.X_layers_key # None
                             THEN adata.layers[a.X_layers_key] ELSE adata.X
                      st == _compute_library_size(SelectRows(src, idx_batch))
                  IN  BatchLoop(adata, a, Tail(todo),
                          [acc EXCEPT
                              !.local_means = AssignWhere(@, idx_batch, st.local_mean),
                              !.local_vars = AssignWhere(@, idx_batch, st.local_var),
                              !.writes = CountWhere(@, idx_batch),
                              !.done = @ + 1])

\* obs[key] = column
SetColumn(obs, key, column) == (key :> column) @@ obs

MeanKey(a) == IF a.local_l_mean_key = None THEN DefaultMeanKey ELSE a.local_l_mean_key
VarKey(a) == IF a.local_l_var_key = None THEN DefaultVarKey ELSE a.local_l_var_key

WithColumns(ad, a, loop) ==
    [ad EXCEPT !.obs = SetColumn(SetColumn(@, MeanKey(a), loop.local_means),
                                 VarKey(a), loop.local_vars)]

\* a variant whose copy is the input object itself
WriteColumns_alias(h, a, loop) ==
    IF a.copy
    THEN [heap |-> [h EXCEPT ![InputId] = WithColumns(h[InputId], a, loop)],
          ret |-> InputId]
    ELSE [heap |-> [h EXCEPT ![InputId] = WithColumns(h[InputId], a, loop)],
          ret |-> None]

\* the writes that follow the loop
WriteColumns(h, a, loop) ==
    IF a.copy
    THEN LET new == Cardinality(DOMAIN h) + 1
         IN  [heap |-> (new :> WithColumns(h[InputId], a, loop)) @@ h,
              ret |-> new]
    ELSE [heap |-> [h EXCEPT ![InputId] = WithColumns(h[InputId], a, loop)],
          ret |-> None]

\* a variant that writes the columns as the loop goes and checks the layer
\* key afterwards
_compute_library_size_batch_eager(h, a) ==
    LET adata == h[InputId]
        n == Len(adata.X)
        zeros == [r \in 1..n |-> Float(0)]
        acc0 == [local_means |-> zeros, local_vars |-> zeros,
                 writes |-> [r \in 1..n |-> 0], done |-> 0, raised |-> None]
    IN  IF a.batch_key \notin DOMAIN adata.obs
        THEN [heap |-> h, ret |-> None, loop |-> acc0,
              raised |-> "batch_key not valid key in obs dataframe"]
        ELSE LET loop == BatchLoop(adata, a, Unique(adata.obs[a.batch_key]), acc0)
                 out == WriteColumns(h, a, loop)
             IN  IF loop.raised # None
                 THEN [heap |-> out.heap, ret |-> None, loop |-> loop,
                       raised |-> loop.raised]
                 ELSE [heap |-> out.heap, ret |-> out.ret, loop |-> loop,
                       raised |-> None]

_compute_library_size_batch(h, a) ==
    LET adata == h[InputId]
        n == Len(adata.X)
        zeros == [r \in 1..n |-> Float(0)]
        acc0 == [local_means |-> zeros, local_vars |-> zeros,
                 writes |-> [r \in 1..n |-> 0], done |-> 0, raised |-> None]
    IN  IF a.batch_key \notin DOMAIN adata.obs
        THEN [heap |-> h, ret |-> None, loop |-> acc0,
              raised |-> "batch_key not valid key in obs dataframe"]
        ELSE LET loop == BatchLoop(adata, a, Unique(adata.obs[a.batch_key]), acc0)
             IN  IF loop.raised # None
                 THEN [heap |-> h, ret |-> None, loop |-> loop, raised |-> loop.raised]
                 ELSE LET out == WriteColumns(h, a, loop)
                      IN  [heap |-> out.heap, ret |-> out.ret, loop |-> loop,
                           raised |-> None]

InitBatch ==
    /\ pc = "start"
    /\ \E ad \in Datasets : heap = (InputId :> ad)
    /\ args = None
    /\ outcome = None
    /\ CheckUnused /\ LibUnused /\ MaskUnused /\ TuneUnused /\ RouteUnused

ComputeLibrarySizeBatch ==
    /\ pc = "start"
    /\ \E a \in BatchArgs :
          LET out == _compute_library_size_batch(heap, a)
          IN  /\ args' = a
              /\ heap' = out.heap
              /\ outcome' = [ret |-> out.ret, raised |-> out.raised,
                             writes |-> out.loop.writes, done |-> out.loop.done,
                             before |-> heap[InputId]]
    /\ pc' = "done"
    /\ UNCHANGED <<checkVars, libVars, maskVars, tuneVars, routeVars>>

NextBatch == ComputeLibrarySizeBatch

SpecBatch == InitBatch /\ [][NextBatch]_vars

\* the matrix the call reads
SourceOf(ad, a) == IF a.X_layers_key = None THEN ad.X ELSE ad.layers[a.X_layers_key]

\* the rows of A whose label is b, in row order
RowsOfBatch(A, labels, b) ==
    LET rows == [i \in 1..Len(A) |-> i]
        InBatch(i) == labels[i] = b
        kept == SelectSeq(rows, InBatch)
    IN  [k \in DOMAIN kept |-> A[kept[k]]]

\* the dataset that carries the result
ResultOf(h, a, o) == IF a.copy THEN h[o.ret] ELSE h[InputId]

LayerKeyMissing == "X_layers_key not a valid key for adata.layers"

\* C3: _compute_library_size_batch fails with an invalid-key error whenever
\* an alternate layer key is given that is not a registered layer, for every
\* dataset, a dataset with zero rows included.
C3_Claim ==
    (pc = "done" /\ args.X_layers_key # None
        /\ args.X_layers_key \notin DOMAIN outcome.before.layers)
    => outcome.raised # None

\* C4: when the call fails on batch_key or on the layer key, the input
\* dataset is unchanged and no other dataset has been created.
C4_Theorem ==
    (pc = "done" /\ outcome.raised # None) =>
        /\ heap = (InputId :> outcome.before)
        /\ outcome.ret = None

\* reached: the layer key is rejected on a dataset with two batches
C4_Witness ==
    /\ pc = "done"
    /\ outcome.raised = LayerKeyMissing
    /\ Cardinality(Range(outcome.before.obs["batch"])) = 2
    /\ heap[InputId] = outcome.before

\* C5: with copy=True the input dataset is unchanged and the call returns a
\* distinct dataset that carries the two new columns; with copy=False the
\* two columns are written into the input dataset and nothing is returned.
C5_Theorem ==
    (pc = "done" /\ outcome.raised = None) =>
        LET before == outcome.before
            n == Len(before.X)
            Carries(ad) ==
                /\ DOMAIN ad.obs = DOMAIN before.obs \cup {MeanKey(args), VarKey(args)}
                /\ Len(ad.obs[MeanKey(args)]) = n
                /\ Len(ad.obs[VarKey(args)]) = n
                /\ \A k \in DOMAIN before.obs : ad.obs[k] = before.obs[k]
                /\ ad.X = before.X
                /\ ad.layers = before.layers
        IN  IF args.copy
            THEN /\ heap[InputId] = before
                 /\ outcome.ret \in DOMAIN heap \ {InputId}
                 /\ DOMAIN heap = {InputId, outcome.ret}
                 /\ Carries(heap[outcome.ret])
            ELSE /\ outcome.ret = None
                 /\ DOMAIN heap = {InputId}
                 /\ Carries(heap[InputId])

\* reached: a copy with the two columns next to an untouched input
C5_Witness ==
    /\ pc = "done"
    /\ outcome.raised = None
    /\ args.copy
    /\ Len(outcome.before.X) >= 2
    /\ heap[InputId] = outcome.before
    /\ outcome.ret # InputId
    /\ {"l_mean", DefaultVarKey} \subseteq DOMAIN heap[outcome.ret].obs

\* C6: after a successful call every row r holds the mean and variance that
\* _compute_library_size gives for exactly the rows with r's batch label;
\* every row is written exactly once, and with one label over all rows the
\* columns hold the statistics of the whole matrix.
C6_Theorem ==
    (pc = "done" /\ outcome.raised = None) =>
        LET before == outcome.before
            labels == before.obs[args.batch_key]
            src == SourceOf(before, args)
            out == ResultOf(heap, args, outcome)
            means == out.obs[MeanKey(args)]
            variances == out.obs[VarKey(args)]
        IN  /\ \A r \in DOMAIN labels :
                  LET st == _compute_library_size(RowsOfBatch(src, labels, labels[r]))
                  IN  /\ means[r] = st.local_mean
                      /\ variances[r] = st.local_var
                      /\ outcome.writes[r] = 1
            /\ \A r, q \in DOMAIN labels :
                  labels[r] = labels[q] =>
                      (means[r] = means[q] /\ variances[r] = variances[q])
            /\ Cardinality(Range(labels)) = 1 =>
                  \A r \in DOMAIN labels :
                      /\ means[r] = _compute_library_size(src).local_mean
                      /\ variances[r] = _compute_library_size(src).local_var

\* reached: two batches, one of them with two rows, that hold different means
C6_Witness ==
    /\ pc = "done"
    /\ outcome.raised = None
    /\ outcome.done = 2
    /\ LET labels == outcome.before.obs["batch"]
           means == ResultOf(heap, args, outcome).obs[MeanKey(args)]
       IN  /\ Len(labels) >= 3
           /\ \E r, q \in DOMAIN labels : r # q /\ labels[r] = labels[q]
           /\ \E r, q \in DOMAIN labels : labels[r] # labels[q] /\ means[r] # means[q]

(***************************************************************************)
(* _get_batch_mask_cell_measurement                                        *)
(*                                                                         *)
(* self is a record of attributes: batch_indices, one label per row, and a *)
(* cell measurement table with one row per cell.                           *)
(***************************************************************************)
MeasureValues == {-1, 0, 1}
MeasureAttr == "protein_expression"

MeasureTables == UNION {[1..s[1] -> [1..s[2] -> MeasureValues]] : s \in Shapes}

MeasureDatasets ==
    UNION {{("batch_indices" :> b) @@ (MeasureAttr :> T) :
               b \in [1..Len(T) -> BatchLabels]} :
           T \in MeasureTables}

\* np.where(batch_indices.ravel() == b)[0]: the matching row indices, ascending
WhereEq(batch_indices, b) ==
    LET rows == [i \in 1..Len(batch_indices) |-> i]
        Match(i) == batch_indices[i] = b
    IN  SelectSeq(rows, Match)

\* table[rows, :].sum(axis=0): the column sums over the chosen rows
SumAxis0(table, rows) ==
    LET m == IF Len(table) = 0 THEN 0 ELSE Len(table[1])
    IN  [j \in 1..m |-> SeqSum([k \in DOMAIN rows |-> table[rows[k]][j]])]

\* the body of the loop for batch label b
BatchMaskOf(self, attribute_name, b) ==
    LET batch_sum == SumAxis0(self[attribute_name], WhereEq(self["batch_indices"], b))
        all_zero == [j \in DOMAIN batch_sum |-> batch_sum[j] = 0]
    IN  [j \in DOMAIN all_zero |-> ~all_zero[j]]

RECURSIVE FirstSeen(_)
\* a variant of np.unique: the distinct values in order of first appearance
FirstSeen(col) ==
    IF col = <<>> THEN <<>>
    ELSE LET h == Head(col)
             Other(x) == x # h
         IN  <<h>> \o FirstSeen(SelectSeq(Tail(col), Other))

\* a variant that visits the labels as the rows first show them
MaskLabels_firstseen(batch_indices) == FirstSeen(batch_indices)

\* np.unique(self.batch_indices.ravel())
MaskLabels(batch_indices) == Unique(batch_indices)

_get_batch_mask_cell_measurement(self, attribute_name) ==
    LET todo == MaskLabels(self["batch_indices"])
    IN  [i \in DOMAIN todo |-> BatchMaskOf(self, attribute_name, todo[i])]

InitMask ==
    /\ pc = "start"
    /\ dataset \in MeasureDatasets
    /\ batch_mask = None
    /\ CheckUnused /\ BatchUnused /\ LibUnused /\ TuneUnused /\ RouteUnused

GetBatchMaskCellMeasurement ==
    /\ pc = "start"
    /\ batch_mask' = _get_batch_mask_cell_measurement(dataset, MeasureAttr)
    /\ pc' = "done"
    /\ UNCHANGED <<dataset, checkVars, batchVars, libVars, tuneVars, routeVars>>

NextMask == GetBatchMaskCellMeasurement

SpecMask == InitMask /\ [][NextMask]_vars

\* the label with exactly i - 1 smaller labels among those present
IthSmallest(labels, i) ==
    CHOOSE b \in labels : Cardinality({c \in labels : c < b}) = i - 1

\* C7: for each distinct batch label b, the mask entry for column j is true
\* exactly when some row with label b has a non-zero value in column j, for
\* every numeric table.
C7_Claim ==
    pc = "done" =>
        LET labels == Range(dataset["batch_indices"])
            T == dataset[MeasureAttr]
        IN  \A i \in DOMAIN batch_mask : \A j \in DOMAIN batch_mask[i] :
                batch_mask[i][j] =
                    (\E r \in DOMAIN T :
                        /\ dataset["batch_indices"][r] = IthSmallest(labels, i)
                        /\ T[r][j] # 0)

\* C8 as stated: one mask per distinct label, in the order in which the rows
\* first show the labels.
C8_Claim ==
    pc = "done" =>
        LET order == FirstSeen(dataset["batch_indices"])
        IN  /\ Len(batch_mask) = Cardinality(Range(dataset["batch_indices"]))
            /\ \A i \in DOMAIN batch_mask :
                  batch_mask[i] = BatchMaskOf(dataset, MeasureAttr, order[i])

\* C8 amended: one mask per distinct label, in ascending order of the labels.
C8_Theorem ==
    pc = "done" =>
        LET labels == Range(dataset["batch_indices"])
        IN  /\ Len(batch_mask) = Cardinality(labels)
            /\ \A i \in DOMAIN batch_mask :
                  batch_mask[i] = BatchMaskOf(dataset, MeasureAttr, IthSmallest(labels, i))

\* reached: the rows show label 1 before label 0, the two batches have
\* different masks, and the first mask is that of label 0
C8_Witness ==
    /\ pc = "done"
    /\ Len(batch_mask) = 2
    /\ dataset["batch_indices"][1] = 1
    /\ batch_mask[1] # batch_mask[2]
    /\ batch_mask[1] = BatchMaskOf(dataset, MeasureAttr, 0)

(***************************************************************************)
(* ModelSave and _TuneReportMetricFunctionsCallback                        *)
(*                                                                         *)
(* trainer is the Lightning trainer as the callbacks see it, with hook the *)
(* callback hook it dispatches next.  A validation run fires               *)
(* on_validation_epoch_end (ModelSave) and then on_validation_end (the     *)
(* report callback registered with on="validation_end").  events is the    *)
(* history of validation runs; reports and checkpoints collect the calls   *)
(* to tune.report and model.save.  The model is identified by the global   *)
(* step its weights were trained to.                                       *)
(***************************************************************************)
num_epochs == 2
MaxBatches == 2
MetricValues == {10, 20}
LoggedMetrics == {"elbo_validation", "reconstruction_loss_validation"}

\* f"epoch={trainer.current_epoch}-step={trainer.global_step}"
StepName(tr) == <<"epoch=", tr.current_epoch, "-step=", tr.global_step>>

\* tune.checkpoint_dir(step=step)
CheckpointDir(step) == <<"checkpoint_">> \o step

\* a variant that saves during the sanity check as well
ModelSave_always(tr, saved) ==
    LET step == StepName(tr)
        checkpoint_dir == CheckpointDir(step)
    IN  Append(saved, [path |-> checkpoint_dir \o <<"/checkpoint">>,
                       model |-> tr.global_step])

\* ModelSave.on_validation_epoch_end: the checkpoints after the call
ModelSave_on_validation_epoch_end(tr, saved) ==
    IF tr.running_sanity_check THEN saved
    ELSE LET step == StepName(tr)
             checkpoint_dir == CheckpointDir(step)
         IN  Append(saved, [path |-> checkpoint_dir \o <<"/checkpoint">>,
                            model |-> tr.global_step])

\* the report_dict that _handle builds
ReportDict(cb, tr) ==
    LET base == IF cb.metrics = <<>>
                THEN [k \in DOMAIN tr.callback_metrics |-> tr.callback_metrics[k]]
                ELSE [k \in Range(cb.metrics) |-> tr.callback_metrics[k]]
        funcs == [k \in cb.metric_functions |-> <<k, tr.global_step>>]
    IN  funcs @@ base

\* _TuneReportMetricFunctionsCallback._handle: the reports after the call
_handle(cb, tr, reported) ==
    IF tr.running_sanity_check THEN reported
    ELSE Append(reported, ReportDict(cb, tr))

CallbackSetups ==
    [metrics : {<<>>, <<"elbo_validation">>},
     metric_functions : {{}, {"silhouette"}}]

MetricLogs == [LoggedMetrics -> MetricValues]

InitTune ==
    /\ pc = "fit"
    /\ callbacks \in CallbackSetups
    /\ \E cm \in MetricLogs :
          trainer = [running_sanity_check |-> FALSE, current_epoch |-> 0,
                     global_step |-> 0, callback_metrics |-> cm, hook |-> "none"]
    /\ events = <<>>
    /\ reports = <<>>
    /\ checkpoints = <<>>
    /\ CheckUnused /\ BatchUnused /\ LibUnused /\ MaskUnused /\ RouteUnused

Event(tr) == [sanity |-> tr.running_sanity_check, epoch |-> tr.current_epoch,
              step |-> tr.global_step]

\* the trainer runs the validation sanity check before the first epoch
SanityValidation ==
    /\ pc = "fit"
    /\ trainer' = [trainer EXCEPT !.running_sanity_check = TRUE,
                                  !.hook = "on_validation_epoch_end"]
    /\ events' = Append(events, Event(trainer'))
    /\ pc' = "sanity"
    /\ UNCHANGED <<callbacks, reports, checkpoints>>
    /\ UNCHANGED <<checkVars, batchVars, libVars, maskVars, routeVars>>

\* the trainer was set up without sanity validation steps
SkipSanity ==
    /\ pc = "fit"
    /\ pc' = "train"
    /\ UNCHANGED <<tuneVars, checkVars, batchVars, libVars, maskVars, routeVars>>

SanityDone ==
    /\ pc = "sanity"
    /\ trainer.hook = "none"
    /\ trainer' = [trainer EXCEPT !.running_sanity_check = FALSE]
    /\ pc' = "train"
    /\ UNCHANGED <<callbacks, events, reports, checkpoints>>
    /\ UNCHANGED <<checkVars, batchVars, libVars, maskVars, routeVars>>

\* one training epoch (max_epochs = num_epochs) followed by its validation
\* run (check_val_every_n_epoch = 1)
TrainEpoch ==
    /\ pc = "train"
    /\ trainer.current_epoch < num_epochs
    /\ \E batches \in 1..MaxBatches, cm \in MetricLogs :
          trainer' = [trainer EXCEPT !.global_step = @ + batches,
                                     !.callback_metrics = cm,
                                     !.hook = "on_validation_epoch_end"]
    /\ events' = Append(events, Event(trainer'))
    /\ pc' = "validate"
    /\ UNCHANGED <<callbacks, reports, checkpoints>>
    /\ UNCHANGED <<checkVars, batchVars, libVars, maskVars, routeVars>>

ValidationDone ==
    /\ pc = "validate"
    /\ trainer.hook = "none"
    /\ trainer' = [trainer EXCEPT !.current_epoch = @ + 1]
    /\ pc' = IF trainer.current_epoch + 1 < num_epochs THEN "train" ELSE "done"
    /\ UNCHANGED <<callbacks, events, reports, checkpoints>>
    /\ UNCHANGED <<checkVars, batchVars, libVars, maskVars, routeVars>>

OnValidationEpochEnd ==
    /\ pc \in {"sanity", "validate"}
    /\ trainer.hook = "on_validation_epoch_end"
    /\ checkpoints' = ModelSave_on_validation_epoch_end(trainer, checkpoints)
    /\ trainer' = [trainer EXCEPT !.hook = "on_validation_end"]
    /\ UNCHANGED <<pc, callbacks, events, reports>>
    /\ UNCHANGED <<checkVars, batchVars, libVars, maskVars, routeVars>>

OnValidationEnd ==
    /\ pc \in {"sanity", "validate"}
    /\ trainer.hook = "on_validation_end"
    /\ reports' = _handle(callbacks, trainer, reports)
    /\ trainer' = [trainer EXCEPT !.hook = "none"]
    /\ UNCHANGED <<pc, callbacks, events, checkpoints>>
    /\ UNCHANGED <<checkVars, batchVars, libVars, maskVars, routeVars>>

NextTune ==
    \/ SanityValidation
    \/ SkipSanity
    \/ SanityDone
    \/ TrainEpoch
    \/ ValidationDone
    \/ OnValidationEpochEnd
    \/ OnValidationEnd

SpecTune == InitTune /\ [][NextTune]_vars

\* the validation runs whose on_validation_epoch_end / on_validation_end
\* hook has returned
SaveHandled ==
    IF trainer.hook = "on_validation_epoch_end" THEN SubSeq(events, 1, Len(events) - 1)
    ELSE events

ReportHandled ==
    IF trainer.hook = "none" THEN events ELSE SubSeq(events, 1, Len(events) - 1)

Real(e) == ~e.sanity

\* C9: a validation-end event during the sanity check produces no report and
\* no checkpoint; every other validation-end event produces exactly one
\* tune.report call and exactly one model save, into the checkpoint
\* directory named by the epoch and global step of the event.
C9_Theorem ==
    LET saved == SelectSeq(SaveHandled, Real)
        reported == SelectSeq(ReportHandled, Real)
    IN  /\ Len(checkpoints) = Len(saved)
        /\ Len(reports) = Len(reported)
        /\ \A i \in DOMAIN checkpoints :
              checkpoints[i].path =
                  <<"checkpoint_", "epoch=", saved[i].epoch, "-step=", saved[i].step,
                    "/checkpoint">>

\* reached: a sanity run and two validation runs have ended, with two
\* reports and two checkpoints
C9_Witness ==
    /\ pc = "done"
    /\ Len(events) = 3
    /\ events[1].sanity
    /\ Len(reports) = 2
    /\ Len(checkpoints) = 2
    /\ checkpoints[1].path # checkpoints[2].path

(***************************************************************************)
(* Autotune: configuration routing                                         *)
(*                                                                         *)
(* hyper holds the three hyperparameter dictionaries, each a map from keys *)
(* to search spaces (sets of candidate values).  config is self.config.    *)
(* trial_cfg is the sequence of trials tune.run has started, each with its *)
(* sampled configuration and, once _scvi_trainable has run, the arguments  *)
(* it built.  best_cfg holds what Autotune.run built from best_config.     *)
(***************************************************************************)
HyperKeys == {"n_latent", "lr"}
MaxTrials == 2

\* the search space a dictionary gives a key: each dictionary has its own
SpaceOf(which) ==
    IF which = "model" THEN {11, 12}
    ELSE IF which = "trainer" THEN {21, 22}
    ELSE {31, 32}

DictsOf(which) ==
    UNION {[K -> {SpaceOf(which)}] : K \in SUBSET HyperKeys}

\* dict.update(d): the entries of d replace those of c
Update(c, d) == d @@ c

\* the loop of __init__ that fills self.config
InitConfig(hp) ==
    Update(Update(Update(<<>>, hp.model_hyperparams), hp.trainer_hyperparams),
           hp.plan_hyperparams)

\* the sub-dictionary of c on the keys K
Restrict(c, K) == [k \in K |-> c[k]]

\* a variant that tests the trainer dictionary first
RouteTrainable_trainerfirst(hp, c) ==
    LET T == DOMAIN c \cap DOMAIN hp.trainer_hyperparams
        M == (DOMAIN c \cap DOMAIN hp.model_hyperparams) \ T
        P == (DOMAIN c \cap DOMAIN hp.plan_hyperparams) \ (M \cup T)
    IN  [model_config |-> Restrict(c, M),
         trainer_config |-> Restrict(c, T),
         plan_config |-> Restrict(c, P)]

\* the if/elif chain of _scvi_trainable over the keys of config
RouteTrainable(hp, c) ==
    LET M == {k \in DOMAIN c : k \in DOMAIN hp.model_hyperparams}
        T == {k \in DOMAIN c \ M : k \in DOMAIN hp.trainer_hyperparams}
        P == {k \in DOMAIN c \ (M \cup T) : k \in DOMAIN hp.plan_hyperparams}
    IN  [model_config |-> Restrict(c, M),
         trainer_config |-> Restrict(c, T),
         plan_config |-> Restrict(c, P)]

\* the if/elif chain of Autotune.run over the keys of best_config
RouteBest(hp, best_config) ==
    LET M == {k \in DOMAIN best_config : k \in DOMAIN hp.model_hyperparams}
        T == {k \in DOMAIN best_config \ M : k \in DOMAIN hp.trainer_hyperparams}
        P == {k \in DOMAIN best_config \ (M \cup T) : k \in DOMAIN hp.plan_hyperparams}
    IN  [model_config |-> Restrict(best_config, M),
         trainer_config |-> Restrict(best_config, T),
         plan_config |-> Restrict(best_config, P)]

\* the configurations tune.run can sample from a search space
Samples(space) ==
    {c \in [DOMAIN space -> UNION {space[k] : k \in DOMAIN space}] :
        \A k \in DOMAIN space : c[k] \in space[k]}

InitRoute ==
    /\ pc = "tuning"
    /\ \E m \in DictsOf("model"), t \in DictsOf("trainer"), p \in DictsOf("plan") :
          hyper = [model_hyperparams |-> m, trainer_hyperparams |-> t,
                   plan_hyperparams |-> p]
    /\ config = InitConfig(hyper)
    /\ trial_cfg = <<>>
    /\ best_cfg = None
    /\ CheckUnused /\ BatchUnused /\ LibUnused /\ MaskUnused /\ TuneUnused

Pending(t) == ~t.routed

\* the arguments of a trial that has not run yet
NotBuilt == [model_config |-> <<>>, trainer_config |-> <<>>, plan_config |-> <<>>]

\* tune.run samples a configuration and starts a trial
StartTrial ==
    /\ pc = "tuning"
    /\ Len(trial_cfg) < MaxTrials
    /\ \A i \in DOMAIN trial_cfg : ~Pending(trial_cfg[i])
    /\ \E c \in Samples(config) :
          trial_cfg' = Append(trial_cfg, [config |-> c, routed |-> FALSE, built |-> NotBuilt])
    /\ UNCHANGED <<pc, hyper, config, best_cfg>>
    /\ UNCHANGED <<checkVars, batchVars, libVars, maskVars, tuneVars>>

\* _scvi_trainable runs for the pending trial
ScviTrainable ==
    /\ pc = "tuning"
    /\ \E i \in DOMAIN trial_cfg :
          /\ Pending(trial_cfg[i])
          /\ trial_cfg' = [trial_cfg EXCEPT
                              ![i].routed = TRUE,
                              ![i].built = RouteTrainable(hyper, trial_cfg[i].config)]
    /\ UNCHANGED <<pc, hyper, config, best_cfg>>
    /\ UNCHANGED <<checkVars, batchVars, libVars, maskVars, tuneVars>>

\* tune.run returns; Autotune.run rebuilds the model from analysis.best_config
RunBest ==
    /\ pc = "tuning"
    /\ trial_cfg # <<>>
    /\ \A i \in DOMAIN trial_cfg : ~Pending(trial_cfg[i])
    /\ \E i \in DOMAIN trial_cfg :
          best_cfg' = [trial |-> i, best_config |-> trial_cfg[i].config,
                       built |-> RouteBest(hyper, trial_cfg[i].config)]
    /\ pc' = "done"
    /\ UNCHANGED <<hyper, config, trial_cfg>>
    /\ UNCHANGED <<checkVars, batchVars, libVars, maskVars, tuneVars>>

NextRoute == StartTrial \/ ScviTrainable \/ RunBest

SpecRoute == InitRoute /\ [][NextRoute]_vars

\* each key of c is in exactly one of the three configurations of b, with its
\* value, and in the first of model, trainer, plan that lists it
RoutedOnce(c, b) ==
    LET parts == <<b.model_config, b.trainer_config, b.plan_config>>
        dicts == <<hyper.model_hyperparams, hyper.trainer_hyperparams,
                   hyper.plan_hyperparams>>
    IN  /\ \A k \in DOMAIN c :
              /\ Cardinality({j \in 1..3 : k \in DOMAIN parts[j]}) = 1
              /\ \A j \in 1..3 :
                    k \in DOMAIN parts[j] =>
                        /\ parts[j][k] = c[k]
                        /\ k \in DOMAIN dicts[j]
                        /\ \A i \in 1..(j - 1) : k \notin DOMAIN dicts[i]
        /\ \A j \in 1..3 : DOMAIN parts[j] \subseteq DOMAIN c

\* C10: every key of a configuration drawn from the three dictionaries goes,
\* value unchanged, to exactly one of the model, trainer and plan
\* configurations (model first, then trainer, then plan), and Autotune.run
\* routes best_config as _scvi_trainable routed it for the trial.
C10_Theorem ==
    /\ \A i \in DOMAIN trial_cfg :
          /\ DOMAIN trial_cfg[i].config =
                 DOMAIN hyper.model_hyperparams \cup DOMAIN hyper.trainer_hyperparams
                     \cup DOMAIN hyper.plan_hyperparams
          /\ ~Pending(trial_cfg[i]) => RoutedOnce(trial_cfg[i].config, trial_cfg[i].built)
    /\ pc = "done" =>
          /\ RoutedOnce(best_cfg.best_config, best_cfg.built)
          /\ \A i \in DOMAIN trial_cfg :
                trial_cfg[i].config = best_cfg.best_config =>
                    best_cfg.built = trial_cfg[i].built

\* reached: one key is in all three dictionaries, the other in the trainer
\* and plan dictionaries only, and the best model is built from the second
\* trial
C10_Witness ==
    /\ pc = "done"
    /\ "n_latent" \in DOMAIN hyper.model_hyperparams
    /\ "n_latent" \in DOMAIN hyper.trainer_hyperparams
    /\ "n_latent" \in DOMAIN hyper.plan_hyperparams
    /\ "lr" \in (DOMAIN hyper.trainer_hyperparams \cap DOMAIN hyper.plan_hyperparams)
                    \ DOMAIN hyper.model_hyperparams
    /\ best_cfg.trial = 2
    /\ best_cfg.built.model_config = [n_latent |-> 31]
    /\ best_cfg.built.trainer_config = [lr |-> 32]
====
